---- MODULE Spec2Model ----
(***************************************************************************)
(* KeyImageStore (fog/ledger/enclave/impl/src/key_image_store.rs):         *)
(* the adapter between key image records and the oblivious map engine.     *)
(*                                                                         *)
(* Representation of numbers.  A u64 does not fit TLC's integers, so a     *)
(* u64 is a tuple of four 16-bit limbs, most significant limb first:       *)
(* <<l3, l2, l1, l0>> is l3*2^48 + l2*2^32 + l1*2^16 + l0.  to_le_bytes    *)
(* and from_le_bytes compute the eight bytes from and to the limbs.        *)
(* A byte buffer is a sequence of numbers in 0..255; TLA+ sequences start  *)
(* at 1, so the source's value[0..8] is SubSeq(value, 1, 8).               *)
(***************************************************************************)
EXTENDS Integers, Sequences, FiniteSets, TLC

VARIABLES
    omap,         \* the engine's table: encoded key -> encoded value
    written,      \* history: key image -> data of its last successful add_record
    replaced,     \* history: the last successful add_record that replaced other data
    debug_build,  \* whether debug_assert! is compiled in (fixed per build)
    lastOp        \* the last operation: its inputs, engine calls and return

vars == <<omap, written, replaced, debug_build, lastOp>>

----------------------------------------------------------------------------
(* Bounds of the model *)

\* valid key images the caller may use (the all-zero key image comes extra)
NumKeys == 2
\* records the caller may add: the first NumRecords of RecordSamples
NumRecords == 3
\* the capacity the engine was created with
DesiredCapacity == 1
\* engine codes a scripted engine double may answer with are 0..MaxCode
MaxCode == 5

----------------------------------------------------------------------------
(* Program constants *)

\* type KeySize = U32, type ValueSize = U16
KeySize == 32
ValueSize == 16

\* the engine's result codes, u32 constants declared in mc_oblivious_traits
\* and imported by the store
OMAP_FOUND == 0
OMAP_NOT_FOUND == 1
OMAP_OVERFLOW == 2
OMAP_INVALID_KEY == 3

\* fog_types::ledger::KeyImageResultCode as u32: the enum declares
\* Spent = 1, NotSpent, KeyImageError
NotSpent == 2
KeyImageError == 3

----------------------------------------------------------------------------
(* u64 and its little-endian bytes *)

Zero64 == <<0, 0, 0, 0>>

Max64 == <<65535, 65535, 65535, 65535>>

\* a u64 below 2^16
Small64(n) == <<0, 0, 0, n>>

\* faulty variant of from_le_bytes: the bytes read most significant first
\* (u64::from_be_bytes)
from_be_bytes(b) ==
    [j \in 1..4 |-> b[2 * j - 1] * 256 + b[2 * j]]

\* u64::to_le_bytes: byte i (from 1) is (x / 256^(i-1)) % 256
to_le_bytes(x) ==
    [i \in 1..8 |->
        LET limb == x[4 - ((i - 1) \div 2)]
        IN  IF (i - 1) % 2 = 0 THEN limb % 256 ELSE limb \div 256]

\* u64::from_le_bytes: sum of b[i] * 256^(i-1)
from_le_bytes(b) ==
    [j \in 1..4 |-> b[2 * (4 - j) + 1] + 256 * b[2 * (4 - j) + 2]]

\* A8Bytes::<N>::default()
DefaultBytes(n) == [i \in 1..n |-> 0]

\* KeyImageData
KeyImageData(b, t) == [block_index |-> b, timestamp |-> t]

RecordSamples ==
    << KeyImageData(Small64(100), Small64(12345)),
       \* {0x0102030405060708, 0x090A0B0C0D0E0F10}
       KeyImageData(<<258, 772, 1286, 1800>>, <<2314, 2828, 3342, 3856>>),
       KeyImageData(Zero64, Max64),
       KeyImageData(Small64(1), Small64(1000)),
       KeyImageData(Small64(2), Small64(2000)),
       KeyImageData(Zero64, Zero64) >>

Records == { RecordSamples[i] : i \in 1..NumRecords }

\* KeyImage: 32 bytes; key image number n is [n; 32], number 0 is all zero
KeyImage(n) == [i \in 1..KeySize |-> n]

KeyImages == { KeyImage(n) : n \in 0..NumKeys }

\* value[0..8] <- block_index.to_le_bytes(), value[8..16] <- timestamp.to_le_bytes()
EncodeValue(data) ==
    LET value == DefaultBytes(ValueSize)
        lo == to_le_bytes(data.block_index)
        hi == to_le_bytes(data.timestamp)
    IN  [i \in 1..ValueSize |->
            IF i <= 8 THEN lo[i] ELSE IF i <= 16 THEN hi[i - 8] ELSE value[i]]

\* result.block_index <- from_le_bytes(value[0..8]), result.timestamp <- from_le_bytes(value[8..16])
DecodeValue(value) ==
    KeyImageData(from_le_bytes(SubSeq(value, 1, 8)), from_le_bytes(SubSeq(value, 9, 16)))

----------------------------------------------------------------------------
(* The oblivious map engine, by its contract *)

\* the engine rejects the all-zero key
OmapKeyValid(key) == key /= DefaultBytes(Len(key))

WriteCall(key, value, allow_overwrite) ==
    [op |-> "vartime_write", key |-> key, value |-> value,
     allow_overwrite |-> allow_overwrite]

ReadCall(key, value) ==
    [op |-> "read", key |-> key, value |-> value, allow_overwrite |-> 0]

\* omap.vartime_write(key, value, allow_overwrite): the code, and the table after
OmapWrite(om, key, value, allow_overwrite) ==
    IF ~OmapKeyValid(key) THEN
        [code |-> OMAP_INVALID_KEY, omap |-> om, value |-> value]
    ELSE IF key \in DOMAIN om THEN
        [code |-> OMAP_FOUND,
         omap |-> IF allow_overwrite = 1 THEN [om EXCEPT ![key] = value] ELSE om,
         value |-> value]
    ELSE IF Cardinality(DOMAIN om) >= DesiredCapacity THEN
        [code |-> OMAP_OVERFLOW, omap |-> om, value |-> value]
    ELSE
        [code |-> OMAP_NOT_FOUND,
         omap |-> [k \in DOMAIN om \cup {key} |-> IF k = key THEN value ELSE om[k]],
         value |-> value]

\* omap.read(key, &mut value): the code, and the value buffer after
OmapRead(om, key, value) ==
    IF ~OmapKeyValid(key) THEN
        [code |-> OMAP_INVALID_KEY, omap |-> om, value |-> value]
    ELSE IF key \in DOMAIN om THEN
        [code |-> OMAP_FOUND, omap |-> om, value |-> om[key]]
    ELSE
        [code |-> OMAP_NOT_FOUND, omap |-> om, value |-> value]

OmapCall(om, call) ==
    IF call.op = "read"
    THEN OmapRead(om, call.key, call.value)
    ELSE OmapWrite(om, call.key, call.value, call.allow_overwrite)

\* the engine calls of one operation, in order; the operation sees the
\* answer to its last call
RECURSIVE OmapCalls(_, _)
OmapCalls(om, calls) ==
    IF Len(calls) = 0 THEN
        [code |-> OMAP_INVALID_KEY, omap |-> om, value |-> DefaultBytes(ValueSize)]
    ELSE IF Len(calls) = 1 THEN
        OmapCall(om, calls[1])
    ELSE
        OmapCalls(OmapCall(om, calls[1]).omap, Tail(calls))

----------------------------------------------------------------------------
(* Constant-time primitives of aligned_cmov / subtle *)

\* a.ct_eq(&b): Choice 1 when equal, 0 otherwise
ct_eq(a, b) == IF a = b THEN 1 ELSE 0

\* dst.cmov(choice, &src): dst after the conditional move
cmov(dst, choice, src) == IF choice = 1 THEN src ELSE dst

----------------------------------------------------------------------------
(* add_record *)

\* key.clone_from_slice(key_image.as_ref()) into A8Bytes::<KeySize>::default()
EncodeKey(key_image) == [i \in 1..KeySize |-> key_image[i]]

\* the engine calls of add_record: one write, overwrite allowed
add_record_calls(key_image, data) ==
    << WriteCall(EncodeKey(key_image), EncodeValue(data), 1) >>

\* faulty variant of AddRecordResult: a capacity overflow reported as success
AddRecordResultOverflowOk(omap_result_code) ==
    IF omap_result_code = OMAP_INVALID_KEY THEN "KeyWrongSize"
    ELSE IF omap_result_code = OMAP_OVERFLOW THEN "Ok"
    ELSE IF omap_result_code = OMAP_FOUND THEN "Ok"
    ELSE IF omap_result_code /= OMAP_NOT_FOUND THEN "panic"
    ELSE "Ok"

\* faulty variant of AddRecordResult: an unexpected engine code reported as
\* a recoverable error
AddRecordResultNoPanic(omap_result_code) ==
    IF omap_result_code = OMAP_INVALID_KEY THEN "KeyWrongSize"
    ELSE IF omap_result_code = OMAP_OVERFLOW THEN "KeyWrongSize"
    ELSE IF omap_result_code = OMAP_FOUND THEN "Ok"
    ELSE IF omap_result_code /= OMAP_NOT_FOUND THEN "KeyWrongSize"
    ELSE "Ok"

\* what add_record does with the engine's code: Err(AddRecordsError::KeyWrongSize),
\* Ok(()) or panic!
AddRecordResult(omap_result_code) ==
    IF omap_result_code = OMAP_INVALID_KEY THEN "KeyWrongSize"
    ELSE IF omap_result_code = OMAP_OVERFLOW THEN "KeyWrongSize"
    ELSE IF omap_result_code = OMAP_FOUND THEN "Ok"
    ELSE IF omap_result_code /= OMAP_NOT_FOUND THEN "panic"
    ELSE "Ok"

----------------------------------------------------------------------------
(* find_record *)

\* faulty variant of find_record_calls: an early return on the all-zero key image
find_record_calls_early_return(key_image) ==
    IF EncodeKey(key_image) = DefaultBytes(KeySize)
    THEN << >>
    ELSE << ReadCall(EncodeKey(key_image), DefaultBytes(ValueSize)) >>

\* faulty variant of find_record_calls: the default value inserted before the read
find_record_calls_write_first(key_image) ==
    << WriteCall(EncodeKey(key_image), DefaultBytes(ValueSize), 1),
       ReadCall(EncodeKey(key_image), DefaultBytes(ValueSize)) >>

\* the engine calls of find_record: one read into a default value buffer
find_record_calls(key_image) ==
    << ReadCall(EncodeKey(key_image), DefaultBytes(ValueSize)) >>

\* result_code after the three conditional moves
BranchlessResultCode(oram_result_code) ==
    LET rc0 == KeyImageError
        rc1 == cmov(rc0, ct_eq(oram_result_code, OMAP_FOUND), NotSpent)
        rc2 == cmov(rc1, ct_eq(oram_result_code, OMAP_NOT_FOUND), KeyImageError)
        rc3 == cmov(rc2, ct_eq(oram_result_code, OMAP_INVALID_KEY), KeyImageError)
    IN  rc3

\* the debug_assert! on the engine's code fails
DebugAssertFails(oram_result_code) ==
    ~(\/ oram_result_code = OMAP_FOUND
      \/ oram_result_code = OMAP_NOT_FOUND
      \/ oram_result_code = OMAP_INVALID_KEY)

\* faulty variant of ClassifyResultCode: NotSpent in the last arm
ClassifyResultCodeElseNotSpent(result_code) ==
    IF result_code = OMAP_FOUND THEN NotSpent
    ELSE IF result_code = OMAP_NOT_FOUND THEN KeyImageError
    ELSE NotSpent

\* the closing if-chain: the KeyImageResultCode returned to the caller.
\* result_code holds a KeyImageResultCode as u32 and is compared with the
\* engine's codes, as written in the source.
ClassifyResultCode(result_code) ==
    IF result_code = OMAP_FOUND THEN NotSpent
    ELSE IF result_code = OMAP_NOT_FOUND THEN KeyImageError
    ELSE KeyImageError

Step(line, kind, def, uses) ==
    [line |-> line, kind |-> kind, def |-> def, uses |-> uses]

\* the steps find_record executes after building its key, in order, each
\* with the variables it assigns and the variables it reads
FindRecordSteps(oram_result_code, debug) ==
    LET result_code == BranchlessResultCode(oram_result_code)
    IN  << Step(134, "call", {"oram_result_code", "value"}, {"key"}),
           Step(135, "cmov", {"result_code"}, {"result_code", "oram_result_code"}),
           Step(139, "cmov", {"result_code"}, {"result_code", "oram_result_code"}),
           Step(143, "cmov", {"result_code"}, {"result_code", "oram_result_code"}) >>
        \o (IF debug
            THEN << Step(148, "debug_assert", {}, {"oram_result_code"}) >>
            ELSE << >>)
        \o (IF debug /\ DebugAssertFails(oram_result_code)
            THEN << >>
            ELSE << Step(159, "assign", {"result"}, {"value"}),
                    Step(160, "assign", {"result"}, {"value"}),
                    Step(162, "branch", {}, {"result_code"}) >>
                 \o (IF result_code = OMAP_FOUND
                     THEN << >>
                     ELSE << Step(164, "branch", {}, {"result_code"}) >>))

\* what find_record returns, given the engine's code and the value buffer
FindRecordResult(oram_result_code, value, debug) ==
    IF debug /\ DebugAssertFails(oram_result_code)
    THEN [status |-> "panic", record |-> KeyImageData(Zero64, Zero64), result_code |-> 0]
    ELSE [status |-> "returned",
          record |-> DecodeValue(value),
          result_code |-> ClassifyResultCode(BranchlessResultCode(oram_result_code))]

----------------------------------------------------------------------------
(* The store as a state machine *)

NoRecord == KeyImageData(Zero64, Zero64)

\* the shape of an engine call trace: the operation of each call and the
\* sizes of its buffers
CallTrace(calls) ==
    [i \in 1..Len(calls) |->
        [op |-> calls[i].op, key_len |-> Len(calls[i].key),
         value_len |-> Len(calls[i].value)]]

NoOp ==
    [op |-> "none", key_image |-> KeyImage(0), data |-> NoRecord, trace |-> << >>,
     code |-> 0, value |-> DefaultBytes(ValueSize), status |-> "none",
     record |-> NoRecord, result_code |-> 0]

NotReplaced == [valid |-> FALSE, old |-> NoRecord]

\* KeyImageStore::new(desired_capacity, logger): an empty engine
Init ==
    /\ omap = << >>
    /\ written = << >>
    /\ replaced = NotReplaced
    /\ debug_build \in BOOLEAN
    /\ lastOp = NoOp

\* a panic ends the process
Running == lastOp.status /= "panic"

\* the history after add_record(key_image, data) returned status
WrittenAfter(key_image, data, status) ==
    IF status = "Ok"
    THEN [k \in DOMAIN written \cup {key_image} |->
            IF k = key_image THEN data ELSE written[k]]
    ELSE written

ReplacedAfter(key_image, data, status) ==
    IF status = "Ok" /\ key_image \in DOMAIN written /\ written[key_image] /= data
    THEN [valid |-> TRUE, old |-> written[key_image]]
    ELSE NotReplaced

\* add_record as the caller and the engine see it: calls are its engine
\* calls and answer is the engine's answer to the last of them
AddOp(key_image, data, calls, answer) ==
    [op |-> "add", key_image |-> key_image, data |-> data,
     trace |-> CallTrace(calls),
     code |-> answer.code, value |-> answer.value,
     status |-> AddRecordResult(answer.code),
     record |-> NoRecord, result_code |-> 0]

\* find_record as the caller and the engine see it
FindOp(key_image, calls, answer) ==
    LET ret == FindRecordResult(answer.code, answer.value, debug_build)
    IN  [op |-> "find", key_image |-> key_image, data |-> NoRecord,
         trace |-> CallTrace(calls),
         code |-> answer.code, value |-> answer.value,
         status |-> ret.status, record |-> ret.record,
         result_code |-> ret.result_code]

\* what add_record(key_image, data) does in the current state
AddAnswer(key_image, data) == OmapCalls(omap, add_record_calls(key_image, data))

add_record(key_image, data) ==
    AddOp(key_image, data, add_record_calls(key_image, data), AddAnswer(key_image, data))

\* add_record(key_image, data) on the engine
AddRecord(key_image, data) ==
    /\ Running
    /\ omap' = AddAnswer(key_image, data).omap
    /\ lastOp' = add_record(key_image, data)
    /\ written' = WrittenAfter(key_image, data, add_record(key_image, data).status)
    /\ replaced' = ReplacedAfter(key_image, data, add_record(key_image, data).status)
    /\ UNCHANGED debug_build

\* what find_record(key_image) does in the current state
FindAnswer(key_image) == OmapCalls(omap, find_record_calls(key_image))

find_record(key_image) ==
    FindOp(key_image, find_record_calls(key_image), FindAnswer(key_image))

\* find_record(key_image) on the engine
FindRecord(key_image) ==
    /\ Running
    /\ omap' = FindAnswer(key_image).omap
    /\ lastOp' = find_record(key_image)
    /\ UNCHANGED <<written, replaced, debug_build>>

Next ==
    \/ \E key_image \in KeyImages, data \in Records : AddRecord(key_image, data)
    \/ \E key_image \in KeyImages : FindRecord(key_image)

Spec == Init /\ [][Next]_vars

----------------------------------------------------------------------------
(* The store on a scripted engine double: the double answers each call   *)
(* with any code in 0..MaxCode, a read with any value buffer, and stores *)
(* nothing.                                                              *)

EngineCodes == 0..MaxCode

ValueBuffers == { EncodeValue(r) : r \in Records } \cup { DefaultBytes(ValueSize) }

ScriptedAnswer(code, value) == [code |-> code, omap |-> omap, value |-> value]

ScriptedAddRecord(key_image, data, code) ==
    LET calls == add_record_calls(key_image, data)
        answer == ScriptedAnswer(code, calls[Len(calls)].value)
    IN  /\ Running
        /\ lastOp' = AddOp(key_image, data, calls, answer)
        /\ UNCHANGED <<omap, written, replaced, debug_build>>

ScriptedFindRecord(key_image, code, value) ==
    LET calls == find_record_calls(key_image)
        answer == ScriptedAnswer(code, value)
    IN  /\ Running
        /\ lastOp' = FindOp(key_image, calls, answer)
        /\ UNCHANGED <<omap, written, replaced, debug_build>>

NextScripted ==
    \/ \E key_image \in KeyImages, data \in Records, code \in EngineCodes :
          ScriptedAddRecord(key_image, data, code)
    \/ \E key_image \in KeyImages, code \in EngineCodes, value \in ValueBuffers :
          ScriptedFindRecord(key_image, code, value)

SpecScripted == Init /\ [][NextScripted]_vars

----------------------------------------------------------------------------
(* Properties *)

ValidReadCodes == {OMAP_FOUND, OMAP_NOT_FOUND, OMAP_INVALID_KEY}

ValidWriteCodes == {OMAP_FOUND, OMAP_NOT_FOUND, OMAP_INVALID_KEY, OMAP_OVERFLOW}

\* the key-to-record mapping the store holds
DataModel == [k \in DOMAIN omap |-> DecodeValue(omap[k])]

\* C1: insert-then-find.  A find_record of a key image whose last
\* add_record succeeded returns the data of that add_record with NotSpent.
C1_InsertThenFind ==
    (lastOp.op = "find" /\ lastOp.key_image \in DOMAIN written)
        => /\ lastOp.status = "returned"
           /\ lastOp.record = written[lastOp.key_image]
           /\ lastOp.result_code = NotSpent

\* C2: unknown key.  In every state, find_record of a key image for which
\* no add_record has succeeded returns ({0, 0}, KeyImageError).
C2_UnknownKey ==
    /\ \A k \in KeyImages \ DOMAIN written :
          /\ find_record(k).status = "returned"
          /\ find_record(k).record = KeyImageData(Zero64, Zero64)
          /\ find_record(k).result_code = KeyImageError
    /\ (lastOp.op = "find" /\ lastOp.key_image \notin DOMAIN written)
          => /\ lastOp.status = "returned"
             /\ lastOp.record = KeyImageData(Zero64, Zero64)
             /\ lastOp.result_code = KeyImageError

C2_Witness ==
    /\ lastOp.op = "find"
    /\ lastOp.key_image \notin DOMAIN written
    /\ OmapKeyValid(EncodeKey(lastOp.key_image))
    /\ DOMAIN written /= {}
    /\ lastOp.code = OMAP_NOT_FOUND

\* C3: last write wins.  An add_record of a key image the engine already
\* holds returns Ok(()), and a find_record of a key image whose data was
\* replaced returns the replacing data with NotSpent, never the replaced data.
C3_LastWriteWins ==
    /\ (lastOp.op = "add" /\ lastOp.code = OMAP_FOUND) => lastOp.status = "Ok"
    /\ (/\ lastOp.op = "find"
        /\ replaced.valid
        /\ lastOp.key_image \in DOMAIN written
        /\ written[lastOp.key_image] /= replaced.old)
          => /\ lastOp.status = "returned"
             /\ lastOp.record = written[lastOp.key_image]
             /\ lastOp.record /= replaced.old
             /\ lastOp.result_code = NotSpent

\* C4: find_record has no failure path and classifies by the engine's read
\* code: on FOUND, NOT_FOUND and INVALID_KEY it returns, with NotSpent for
\* FOUND and KeyImageError for the other two, and with no other value.
C4_Classification ==
    (lastOp.op = "find" /\ lastOp.code \in ValidReadCodes)
        => /\ lastOp.status = "returned"
           /\ lastOp.result_code \in {NotSpent, KeyImageError}
           /\ lastOp.code = OMAP_FOUND => lastOp.result_code = NotSpent
           /\ lastOp.code \in {OMAP_NOT_FOUND, OMAP_INVALID_KEY}
                 => lastOp.result_code = KeyImageError

\* C5: add_record returns Ok(()) exactly when the engine write returned
\* FOUND or NOT_FOUND and Err(KeyWrongSize) exactly when it returned
\* INVALID_KEY or OVERFLOW; a fresh key refused by an engine at capacity
\* yields Err(KeyWrongSize).
C5_AddOutcome ==
    lastOp.op = "add"
        => /\ lastOp.status = "Ok" <=> lastOp.code \in {OMAP_FOUND, OMAP_NOT_FOUND}
           /\ lastOp.status = "KeyWrongSize"
                 <=> lastOp.code \in {OMAP_INVALID_KEY, OMAP_OVERFLOW}
           /\ (/\ OmapKeyValid(EncodeKey(lastOp.key_image))
               /\ EncodeKey(lastOp.key_image) \notin DOMAIN omap)
                 => /\ lastOp.code = OMAP_OVERFLOW
                    /\ lastOp.status = "KeyWrongSize"

C5_Witness ==
    /\ lastOp.op = "add"
    /\ lastOp.code = OMAP_OVERFLOW
    /\ Cardinality(DOMAIN omap) = DesiredCapacity
    /\ lastOp.status = "KeyWrongSize"

\* C6: access-pattern invariance.  Every find_record issues the same engine
\* calls, one read with a 32-byte key and a 16-byte value buffer and no
\* write, whatever the key image and whatever the engine answers.
C6_AccessPattern ==
    /\ lastOp.op = "find"
          => lastOp.trace = << [op |-> "read", key_len |-> 32, value_len |-> 16] >>
    /\ \A k1, k2 \in KeyImages : find_record(k1).trace = find_record(k2).trace

C6_Witness ==
    /\ lastOp.op = "find"
    /\ lastOp.code = OMAP_INVALID_KEY
    /\ \E k1, k2 \in KeyImages :
          /\ find_record(k1).code = OMAP_FOUND
          /\ find_record(k2).code = OMAP_NOT_FOUND

\* the variables that hold a value derived from the engine's answer after
\* the first n steps
RECURSIVE Derived(_, _)
Derived(steps, n) ==
    IF n = 0 THEN {}
    ELSE LET before == Derived(steps, n - 1)
             s == steps[n]
         IN  IF s.kind = "call" \/ s.uses \cap before /= {}
             THEN before \cup s.def
             ELSE before

\* C7: branchless classification.  No step of find_record is a control-flow
\* branch on the engine's read code, on a value derived from it or on the
\* decoded record.
C7_Branchless ==
    lastOp.op = "find"
        => LET steps == FindRecordSteps(lastOp.code, debug_build)
           IN  \A i \in 1..Len(steps) :
                  steps[i].kind = "branch"
                      => steps[i].uses \cap Derived(steps, i - 1) = {}

\* C8: codec round trip.  The 16-byte buffer add_record hands to the engine
\* holds block_index in bytes [0..8) and timestamp in bytes [8..16), and
\* find_record's decoding of it is the record; the all-zero buffer decodes
\* to {0, 0}.
C8_RoundTrip ==
    /\ lastOp.op = "add"
          => /\ Len(lastOp.value) = 16
             /\ DecodeValue(lastOp.value) = lastOp.data
             /\ from_le_bytes(SubSeq(lastOp.value, 1, 8)) = lastOp.data.block_index
             /\ from_le_bytes(SubSeq(lastOp.value, 9, 16)) = lastOp.data.timestamp
    /\ (lastOp.op = "find" /\ lastOp.status = "returned"
            /\ lastOp.value = DefaultBytes(ValueSize))
          => lastOp.record = KeyImageData(Zero64, Zero64)
    /\ (lastOp.op = "find" /\ lastOp.status = "returned"
            /\ lastOp.key_image \in DOMAIN written /\ lastOp.code = OMAP_FOUND)
          => lastOp.record = written[lastOp.key_image]

C8_Witness ==
    /\ lastOp.op = "find"
    /\ lastOp.code = OMAP_FOUND
    /\ lastOp.record = RecordSamples[2]

\* C9: fatal on unknown engine code.  When the engine write returns a code
\* other than FOUND, NOT_FOUND, INVALID_KEY and OVERFLOW, add_record panics:
\* it returns neither Ok(()) nor Err(KeyWrongSize).
C9_FatalOnUnknownCode ==
    (lastOp.op = "add" /\ lastOp.code \notin ValidWriteCodes)
        => /\ lastOp.status = "panic"
           /\ lastOp.status \notin {"Ok", "KeyWrongSize"}

C9_Witness ==
    /\ lastOp.op = "add"
    /\ lastOp.code \notin ValidWriteCodes
    /\ lastOp.status = "panic"

\* what find_record(k) returns to its caller in the current state
FindReturn(k) ==
    LET answer == FindAnswer(k)
        ret == FindRecordResult(answer.code, answer.value, debug_build)
    IN  <<ret.status, ret.record, ret.result_code>>

\* C10: find_record leaves the key-to-record mapping unchanged, so the
\* result of find_record for every key image is the same after it as before.
C10_FindFrame ==
    [][lastOp'.op = "find"
          => /\ DataModel' = DataModel
             /\ \A k \in KeyImages : FindReturn(k)' = FindReturn(k)]_vars

C10_Witness ==
    /\ lastOp.op = "find"
    /\ lastOp.code = OMAP_NOT_FOUND
    /\ DOMAIN omap /= {}

====
